---- MODULE Spec2Model ----
(***************************************************************************)
(* Model of examples/voxceleb/sv0/local/train.py: main(args) run by nranks *)
(* processes (one per rank) that share a file system and meet only at      *)
(* paddle.distributed.barrier().  The model is not wrapped in a data       *)
(* parallel layer, so the ranks exchange nothing else.                     *)
(*                                                                         *)
(* Strings that the code inspects character by character (paths) are       *)
(* sequences of one-character strings.  None and '' are both the empty     *)
(* sequence: the code only tests the option's truth value (line 84).       *)
(* Tensors, parameters and optimizer moments are abstracted to the record  *)
(* [base, steps]: where the state came from and how many optimizer steps   *)
(* were applied to it since.                                               *)
(***************************************************************************)
EXTENDS Integers, Sequences, FiniteSets, TLC

\* ------------------------------------------------------------- bounds
MaxRanks == 2        \* world sizes 1..MaxRanks
MaxEpochs == 3       \* --epochs in 0..MaxEpochs, besides TwoDigitEpochs
MaxSteps == 3        \* len(train_sampler) in 1..MaxSteps
MaxLogFreq == 2      \* --log_freq in 0..MaxLogFreq
MaxSaveFreq == 2     \* args.save_freq in 0..MaxSaveFreq (when defined)
DevSteps == 1        \* number of batches of the dev loader

\* ------------------------------------------------------------- strings
DigitChars == <<"0", "1", "2", "3", "4", "5", "6", "7", "8", "9">>

\* str(n) for n >= 0, as used by 'epoch_{}'.format(epoch)
RECURSIVE str(_)
str(n) ==
    IF n < 10 THEN <<DigitChars[n + 1]>>
    ELSE str(n \div 10) \o <<DigitChars[(n % 10) + 1]>>

\* 'epoch_{}'.format(epoch)
format_epoch(e) == <<"e", "p", "o", "c", "h", "_">> \o str(e)

\* os.path.join(a, b) for a relative b
join(a, b) ==
    IF Len(a) = 0 THEN b
    ELSE IF a[Len(a)] = "/" THEN a \o b
    ELSE a \o <<"/">> \o b

\* the working directory of the processes
cwd == <<"/", "w">>

\* os.path.normpath on the paths used here: trailing separators are dropped
RECURSIVE normpath(_)
normpath(p) ==
    IF Len(p) > 1 /\ p[Len(p)] = "/" THEN normpath(SubSeq(p, 1, Len(p) - 1))
    ELSE p

\* os.path.abspath(os.path.expanduser(p)) for p without '~'
abspath(p) ==
    IF Len(p) > 0 /\ p[1] = "/" THEN normpath(p) ELSE normpath(join(cwd, p))

\* int(c) of a one-character string succeeds iff c is a decimal digit
IsDigit(c) == \E d \in 1..10 : DigitChars[d] = c
int(c) == (CHOOSE d \in 1..10 : DigitChars[d] = c) - 1

\* the smallest epoch count whose str() has two characters
TwoDigitEpochs == Len(DigitChars)

PDPARAMS == <<"model.pdparams">>
PDOPT == <<"model.pdopt">>

\* ------------------------------------------------------------- inputs
\* the argparse parser of __main__: the namespace holds exactly these options
parse_args(lc, ep, lf, bs) ==
    [device |-> "cpu", data_dir |-> "./data/", learning_rate |-> "1e-8",
     load_checkpoint |-> lc, batch_size |-> bs, num_workers |-> 0,
     epochs |-> ep, log_freq |-> lf]

\* a namespace built by a caller of main() that also sets the two options
\* main reads at the end of an epoch
with_save_options(ns, sf, cd) ==
    [o \in DOMAIN ns \cup {"save_freq", "checkpoint_dir"} |->
        IF o = "save_freq" THEN sf
        ELSE IF o = "checkpoint_dir" THEN cd
        ELSE ns[o]]

\* getattr(args, name) raises AttributeError iff the option is not defined
hasattr(ns, name) == name \in DOMAIN ns

CheckpointDir == <<"c">>
PretrainedDir == <<"p">>
BatchSizes == {2, 64}

\* save_dir of epoch e (lines 225-226)
save_dir(cd, e) == join(cd, format_epoch(e))

\* the values given to --load-checkpoint: none, a directory whose name ends
\* in no digit, and the directories written for the epochs 1..ep
LoadPaths(ep) ==
    {<<>>, PretrainedDir, save_dir(CheckpointDir, 1) \o <<"/">>}
        \cup {save_dir(CheckpointDir, n) : n \in 1..ep}

\* abstract tensors: a state dict is where it came from and the number of
\* optimizer steps applied since
Fresh == [base |-> "init", steps |-> 0]
Pretrained == [base |-> "ckpt", steps |-> 0]

\* what paddle.load raises for a file it cannot load
LoadErrors == {"ValueError", "FileNotFoundError", "FileExistsError"}

\* ------------------------------------------------------------- state
VARIABLES
    nranks,          \* paddle.distributed.get_world_size()
    steps_per_epoch, \* len(train_sampler), the same on every rank
    fs,              \* the shared file system: absolute path -> contents
    load_error,      \* the exception paddle.load raises for a missing file
    saved,           \* the paddle.save calls made: {<<rank, path, epoch>>}
    barrier_calls,   \* per rank: paddle.distributed.barrier() calls made
    args,            \* per rank: the namespace main was called with
    pc,              \* per rank: position in main
    error,           \* per rank: the exception that ended main, or "none"
    model,           \* per rank: model.state_dict()
    mode,            \* per rank: "train" or "eval" (model.training)
    optimizer,       \* per rank: optimizer.state_dict()
    load_failed,     \* per rank: an exception was raised in the load block
    start_epoch,     \* per rank
    epoch,           \* per rank: the loop variable of line 126
    batch_idx,       \* per rank: the loop variable of lines 133 and 203
    avg_loss,        \* per rank: the loss terms summed in avg_loss
    num_corrects,    \* per rank: the batches summed in num_corrects
    num_samples,     \* per rank: the batches summed in num_samples
    next_batch,      \* per rank: the counter of enumerate(train_loader)
    timer,           \* per rank: timer.count() calls
    stdout           \* per rank: the lines printed

vars == <<nranks, steps_per_epoch, fs, load_error, saved, barrier_calls, args, pc, error,
          model, mode, optimizer, load_failed, start_epoch, epoch, batch_idx,
          next_batch, avg_loss, num_corrects, num_samples, timer,
          stdout>>

Ranks == 0..(nranks - 1)

\* open(path): relative paths are resolved against the working directory
exists(path) == abspath(path) \in DOMAIN fs
read(path) == fs[abspath(path)]
write(f, path, v) ==
    [p \in DOMAIN f \cup {abspath(path)} |-> IF p = abspath(path) THEN v ELSE f[p]]

\* the files present in a directory given to --load-checkpoint before the run
InitialFiles(lc) ==
    IF Len(lc) = 0 THEN {{}}
    ELSE SUBSET {abspath(join(lc, PDPARAMS)), abspath(join(lc, PDOPT))}

\* the values of --load-checkpoint given to runs of more than one process
DistributedLoadPaths == {<<>>, save_dir(CheckpointDir, 1)}

\* The runs: main is entered through the parser of __main__ (cli) or called
\* with a namespace that also defines save_freq and checkpoint_dir.  The
\* two-digit epoch count is run by one process with the default batch size;
\* runs of several processes start from no checkpoint or from a complete
\* checkpoint epoch_1.
Init ==
    /\ steps_per_epoch \in 1..MaxSteps
    /\ \E ep \in (0..MaxEpochs) \cup {TwoDigitEpochs}, lf \in 0..MaxLogFreq,
          bs \in BatchSizes, cli \in BOOLEAN, sf \in 0..MaxSaveFreq :
         \E lc \in LoadPaths(ep) :
            /\ nranks \in IF ep > MaxEpochs \/ lc \notin DistributedLoadPaths
                          THEN {1} ELSE 1..MaxRanks
            /\ cli => sf = 0
            /\ (cli \/ ep > MaxEpochs) => bs = 64
            /\ args = [r \in Ranks |->
                         IF cli THEN parse_args(lc, ep, lf, bs)
                         ELSE with_save_options(parse_args(lc, ep, lf, bs),
                                                sf, CheckpointDir)]
            /\ \E files \in InitialFiles(lc) :
                 /\ nranks > 1 => files = UNION InitialFiles(lc)
                 /\ fs = [p \in files |-> Pretrained]
                 /\ load_error \in IF Cardinality(files) = 2 \/ Len(lc) = 0
                                    THEN {"ValueError"} ELSE LoadErrors
    /\ saved = {}
    /\ barrier_calls = [r \in Ranks |-> 0]
    /\ pc = [r \in Ranks |-> "stage7"]
    /\ error = [r \in Ranks |-> "none"]
    /\ model = [r \in Ranks |-> Fresh]
    /\ mode = [r \in Ranks |-> "train"]
    /\ optimizer = [r \in Ranks |-> Fresh]
    /\ load_failed = [r \in Ranks |-> FALSE]
    /\ start_epoch = [r \in Ranks |-> 0]
    /\ epoch = [r \in Ranks |-> 0]
    /\ batch_idx = [r \in Ranks |-> -1]
    /\ avg_loss = [r \in Ranks |-> <<>>]
    /\ num_corrects = [r \in Ranks |-> <<>>]
    /\ num_samples = [r \in Ranks |-> <<>>]
    /\ next_batch = [r \in Ranks |-> 0]
    /\ timer = [r \in Ranks |-> 0]
    /\ stdout = [r \in Ranks |-> <<>>]

\* ------------------------------------------------------------- helpers
\* mutation: every rank takes itself for the main process
is_main_process_any_rank(r) == r >= 0

\* local_rank == 0 (lines 97, 100, 163, 181)
is_main_process(r) == r = 0

\* print(...) on rank r
print(out, r, line) == [out EXCEPT ![r] = Append(@, line)]

\* the line of print() calls guarded by "if local_rank == 0"
print_main(out, r, line) == IF is_main_process(r) THEN print(out, r, line) ELSE out

\* one optimizer.step() on a state dict
step(sd) == [sd EXCEPT !.steps = @ + 1]

\* the loss of one training batch, a term of avg_loss; the batch itself, a
\* term of num_corrects and num_samples
TrainBatch(e, b) == [ds |-> "train", epoch |-> e, idx |-> b]
DevBatch(b) == [ds |-> "dev", epoch |-> 0, idx |-> b]
DevBatches == [b \in 1..DevSteps |-> DevBatch(b - 1)]

\* the next value of range(start_epoch + 1, args.epochs + 1) (line 126)
range_next(r) == IF epoch[r] = 0 THEN start_epoch[r] + 1 ELSE epoch[r] + 1

\* mutation: the log condition tests batch_idx instead of batch_idx + 1
log_due_off_by_one(r, b) == b % args[r].log_freq = 0 /\ is_main_process(r)

\* the condition of line 163, for a namespace with log_freq > 0
log_due(r, b) == (b + 1) % args[r].log_freq = 0 /\ is_main_process(r)

\* the first operand of the condition of line 180, for save_freq > 0
save_due(r) == epoch[r] % args[r].save_freq = 0

\* mutation: the barrier returns without waiting for the other ranks
barrier_open_no_wait(r) == barrier_calls[r] >= 0

\* paddle.distributed.barrier() returns on rank r once every rank has made
\* as many barrier calls as r
barrier_open(r) == \A q \in Ranks : barrier_calls[q] >= barrier_calls[r]

\* ------------------------------------------------------------- stage 7
\* lines 83-107: the checkpoint is loaded and start_epoch is set
LoadCheckpoint(r) ==
    /\ pc[r] = "stage7"
    /\ UNCHANGED <<nranks, steps_per_epoch, fs, load_error, saved, barrier_calls, mode,
                   epoch, batch_idx, next_batch, avg_loss, num_corrects,
                   num_samples, timer>>
    /\ IF Len(args[r].load_checkpoint) = 0
       THEN /\ pc' = [pc EXCEPT ![r] = "loop"]
            /\ UNCHANGED <<args, error, model, optimizer, load_failed,
                           start_epoch, stdout>>
       ELSE LET lc == abspath(args[r].load_checkpoint)
                params == join(lc, PDPARAMS)
                opt == join(lc, PDOPT)
                last == lc[Len(lc)]
                \* lines 103-107 after the first try block printed out1
                restore(out1) ==
                    /\ pc' = [pc EXCEPT ![r] = "loop"]
                    /\ error' = error
                    /\ IF IsDigit(last)
                       THEN /\ start_epoch' = [start_epoch EXCEPT ![r] = int(last)]
                            /\ stdout' = print(out1, r,
                                   [msg |-> "restore", epoch |-> int(last)])
                       ELSE /\ start_epoch' = start_epoch
                            /\ stdout' = out1
                \* an exception e raised inside the first try block
                raised(e) ==
                    /\ load_failed' = [load_failed EXCEPT ![r] = TRUE]
                    /\ IF e = "FileExistsError"
                       THEN restore(print_main(stdout, r, [msg |-> "scratch"]))
                       ELSE /\ pc' = [pc EXCEPT ![r] = "aborted"]
                            /\ error' = [error EXCEPT ![r] = e]
                            /\ UNCHANGED <<start_epoch, stdout>>
            IN  /\ args' = [args EXCEPT ![r]["load_checkpoint"] = lc]
                /\ IF ~exists(params)
                   THEN /\ UNCHANGED <<model, optimizer>>
                        /\ raised(load_error)
                   ELSE /\ model' = [model EXCEPT ![r] = read(params)]
                        /\ IF ~exists(opt)
                           THEN /\ UNCHANGED optimizer
                                /\ raised(load_error)
                           ELSE /\ optimizer' = [optimizer EXCEPT ![r] = read(opt)]
                                /\ load_failed' = load_failed
                                /\ restore(print_main(stdout, r,
                                       [msg |-> "loaded", path |-> lc]))

\* ------------------------------------------------------------- stage 9
\* lines 126-132: the next epoch starts, or the loop is over
EpochBegin(r) ==
    /\ pc[r] = "loop"
    /\ UNCHANGED <<nranks, steps_per_epoch, fs, load_error, saved, barrier_calls, args,
                   error, model, optimizer, load_failed, start_epoch,
                   batch_idx, timer, stdout>>
    /\ IF range_next(r) >= args[r].epochs + 1
       THEN /\ pc' = [pc EXCEPT ![r] = "done"]
            /\ UNCHANGED <<mode, epoch, next_batch, avg_loss, num_corrects,
                           num_samples>>
       ELSE /\ pc' = [pc EXCEPT ![r] = "train"]
            /\ epoch' = [epoch EXCEPT ![r] = range_next(r)]
            /\ mode' = [mode EXCEPT ![r] = "train"]
            /\ next_batch' = [next_batch EXCEPT ![r] = 0]
            /\ avg_loss' = [avg_loss EXCEPT ![r] = <<>>]
            /\ num_corrects' = [num_corrects EXCEPT ![r] = <<>>]
            /\ num_samples' = [num_samples EXCEPT ![r] = <<>>]

\* lines 133-178: one batch of the training loader
TrainStep(r) ==
    /\ pc[r] = "train"
    /\ LET b == next_batch[r]
           loss == Append(avg_loss[r], TrainBatch(epoch[r], b))
           corrects == Append(num_corrects[r], TrainBatch(epoch[r], b))
           samples == Append(num_samples[r], TrainBatch(epoch[r], b))
       IN  /\ batch_idx' = [batch_idx EXCEPT ![r] = b]
           /\ next_batch' = [next_batch EXCEPT ![r] = b + 1]
           /\ model' = [model EXCEPT ![r] = step(@)]
           /\ optimizer' = [optimizer EXCEPT ![r] = step(@)]
           /\ timer' = [timer EXCEPT ![r] = @ + 1]
           /\ IF args[r].log_freq = 0
              THEN \* (batch_idx + 1) % 0
                   /\ pc' = [pc EXCEPT ![r] = "aborted"]
                   /\ error' = [error EXCEPT ![r] = "ZeroDivisionError"]
                   /\ avg_loss' = [avg_loss EXCEPT ![r] = loss]
                   /\ num_corrects' = [num_corrects EXCEPT ![r] = corrects]
                   /\ num_samples' = [num_samples EXCEPT ![r] = samples]
                   /\ stdout' = stdout
              ELSE /\ pc' = [pc EXCEPT ![r] =
                               IF b + 1 = steps_per_epoch THEN "epoch_end"
                               ELSE "train"]
                   /\ error' = error
                   /\ IF log_due(r, b)
                      THEN /\ stdout' = print(stdout, r,
                                  [msg |-> "train", epoch |-> epoch[r],
                                   step |-> b + 1,
                                   loss |-> [sum |-> loss,
                                             div |-> args[r].log_freq],
                                   acc |-> [num |-> corrects, den |-> samples]])
                           /\ avg_loss' = [avg_loss EXCEPT ![r] = <<>>]
                           /\ num_corrects' = [num_corrects EXCEPT ![r] = <<>>]
                           /\ num_samples' = [num_samples EXCEPT ![r] = <<>>]
                      ELSE /\ stdout' = stdout
                           /\ avg_loss' = [avg_loss EXCEPT ![r] = loss]
                           /\ num_corrects' = [num_corrects EXCEPT ![r] = corrects]
                           /\ num_samples' = [num_samples EXCEPT ![r] = samples]
    /\ UNCHANGED <<nranks, steps_per_epoch, fs, load_error, saved, barrier_calls, args,
                   mode, load_failed, start_epoch, epoch>>

\* lines 180-184: the end of an epoch; a rank other than 0 calls the barrier
EpochEnd(r) ==
    /\ pc[r] = "epoch_end"
    /\ UNCHANGED <<nranks, steps_per_epoch, fs, load_error, saved, args, model, mode,
                   optimizer, load_failed, start_epoch, epoch, batch_idx,
                   next_batch, avg_loss, num_corrects, num_samples, timer,
                   stdout>>
    /\ IF ~hasattr(args[r], "save_freq")
       THEN /\ pc' = [pc EXCEPT ![r] = "aborted"]
            /\ error' = [error EXCEPT ![r] = "AttributeError"]
            /\ UNCHANGED barrier_calls
       ELSE IF args[r].save_freq = 0
       THEN \* epoch % 0
            /\ pc' = [pc EXCEPT ![r] = "aborted"]
            /\ error' = [error EXCEPT ![r] = "ZeroDivisionError"]
            /\ UNCHANGED barrier_calls
       ELSE IF ~(save_due(r) /\ batch_idx[r] + 1 = steps_per_epoch)
       THEN /\ pc' = [pc EXCEPT ![r] = "loop"]
            /\ UNCHANGED <<error, barrier_calls>>
       ELSE IF ~is_main_process(r)
       THEN /\ pc' = [pc EXCEPT ![r] = "barrier"]
            /\ barrier_calls' = [barrier_calls EXCEPT ![r] = @ + 1]
            /\ UNCHANGED error
       ELSE /\ pc' = [pc EXCEPT ![r] = "valid"]
            /\ UNCHANGED <<error, barrier_calls>>

\* lines 186-222: the validation pass
Validate(r) ==
    /\ pc[r] = "valid"
    /\ UNCHANGED <<nranks, steps_per_epoch, fs, load_error, saved, barrier_calls, args,
                   model, optimizer, load_failed, start_epoch, epoch,
                   next_batch, avg_loss, timer>>
    /\ IF args[r].batch_size \div 4 <= 0
       THEN \* BatchSampler requires a positive batch size
            /\ pc' = [pc EXCEPT ![r] = "aborted"]
            /\ error' = [error EXCEPT ![r] = "AssertionError"]
            /\ UNCHANGED <<mode, batch_idx, num_corrects, num_samples, stdout>>
       ELSE /\ pc' = [pc EXCEPT ![r] = "save_params"]
            /\ error' = error
            /\ mode' = [mode EXCEPT ![r] = "eval"]
            /\ batch_idx' = [batch_idx EXCEPT ![r] = DevSteps - 1]
            /\ num_corrects' = [num_corrects EXCEPT ![r] = DevBatches]
            /\ num_samples' = [num_samples EXCEPT ![r] = DevBatches]
            /\ stdout' = print(print(stdout, r, [msg |-> "evaluate"]), r,
                               [msg |-> "dev_acc",
                                acc |-> [num |-> DevBatches, den |-> DevBatches]])

\* lines 224-229: the model parameters are saved
SaveParams(r) ==
    /\ pc[r] = "save_params"
    /\ UNCHANGED <<nranks, steps_per_epoch, load_error, barrier_calls, args, model, mode,
                   optimizer, load_failed, start_epoch, epoch, batch_idx,
                   next_batch, avg_loss, num_corrects, num_samples, timer>>
    /\ IF ~hasattr(args[r], "checkpoint_dir")
       THEN /\ pc' = [pc EXCEPT ![r] = "aborted"]
            /\ error' = [error EXCEPT ![r] = "AttributeError"]
            /\ UNCHANGED <<fs, saved, stdout>>
       ELSE LET dir == save_dir(args[r].checkpoint_dir, epoch[r])
                file == join(dir, PDPARAMS)
            IN  /\ pc' = [pc EXCEPT ![r] = "save_opt"]
                /\ error' = error
                /\ stdout' = print(stdout, r, [msg |-> "saving", path |-> dir])
                /\ fs' = write(fs, file, model[r])
                /\ saved' = saved \cup {<<r, abspath(file), epoch[r]>>}

\* lines 230-234: the optimizer state is saved; the main process calls the
\* barrier when there are other ranks
SaveOpt(r) ==
    /\ pc[r] = "save_opt"
    /\ UNCHANGED <<nranks, steps_per_epoch, load_error, args, error, model, mode,
                   optimizer, load_failed, start_epoch, epoch, batch_idx,
                   next_batch, avg_loss, num_corrects, num_samples, timer,
                   stdout>>
    /\ LET file == join(save_dir(args[r].checkpoint_dir, epoch[r]), PDOPT)
       IN  /\ fs' = write(fs, file, optimizer[r])
           /\ saved' = saved \cup {<<r, abspath(file), epoch[r]>>}
    /\ IF nranks > 1
       THEN /\ pc' = [pc EXCEPT ![r] = "barrier"]
            /\ barrier_calls' = [barrier_calls EXCEPT ![r] = @ + 1]
       ELSE /\ pc' = [pc EXCEPT ![r] = "loop"]
            /\ UNCHANGED barrier_calls

\* paddle.distributed.barrier() returns (lines 182-184 and 234)
BarrierReturn(r) ==
    /\ pc[r] = "barrier"
    /\ barrier_open(r)
    /\ pc' = [pc EXCEPT ![r] = "loop"]
    /\ UNCHANGED <<nranks, steps_per_epoch, fs, load_error, saved, barrier_calls, args,
                   error, model, mode, optimizer, load_failed, start_epoch,
                   epoch, batch_idx, next_batch, avg_loss, num_corrects,
                   num_samples, timer, stdout>>

\* ------------------------------------------------------------- system
Next ==
    \/ \E r \in Ranks : LoadCheckpoint(r)
    \/ \E r \in Ranks : EpochBegin(r)
    \/ \E r \in Ranks : TrainStep(r)
    \/ \E r \in Ranks : EpochEnd(r)
    \/ \E r \in Ranks : Validate(r)
    \/ \E r \in Ranks : SaveParams(r)
    \/ \E r \in Ranks : SaveOpt(r)
    \/ \E r \in Ranks : BarrierReturn(r)

Spec == Init /\ [][Next]_vars

\* ------------------------------------------------------------- vocabulary
\* the options the parser of __main__ defines (lines 240-270)
ParserOptions == DOMAIN parse_args(<<>>, 0, 0, 64)

\* rank r entered the epoch loop of line 126
InLoop(r) == pc[r] \notin {"stage7"} /\ error[r] \notin LoadErrors

\* main has ended on rank r, normally or by an exception
Ended(r) == pc[r] \in {"done", "aborted"}

\* arguments for which no modulus is taken by zero (lines 163, 180) and the
\* dev batch size of line 188 is positive
SaneArgs(r) ==
    /\ args[r].log_freq > 0
    /\ args[r].batch_size \div 4 > 0
    /\ hasattr(args[r], "save_freq") => args[r].save_freq > 0

\* the number of epochs of range(start_epoch + 1, epochs + 1)
EpochsToRun(r) ==
    IF args[r].epochs > start_epoch[r] THEN args[r].epochs - start_epoch[r] ELSE 0

\* rank r ran every training step of epoch e and left the block of
\* lines 180-234 for it: it went on to the loop head (directly, after the
\* save or after the barrier returned) or an exception raised in the block
\* ended main.  A rank waiting at the barrier (line 182 or 234) is still in
\* the block.  With log_freq = 0 the exception is raised at line 163, inside
\* the first training step, and the block is not reached.
EpochCompleted(r, e) ==
    /\ e > start_epoch[r]
    /\ \/ epoch[r] > e
       \/ /\ epoch[r] = e
          /\ \/ pc[r] \in {"loop", "done"}
             \/ /\ pc[r] = "aborted"
                /\ args[r].log_freq > 0
                /\ next_batch[r] = steps_per_epoch

\* the paddle.save calls recorded for epoch e: the files written
FilesSaved(e) == {s[2] : s \in {t \in saved : t[3] = e}}

\* the two files of the checkpoint of epoch e under checkpoint_dir cd
CheckpointFiles(cd, e) ==
    {abspath(join(save_dir(cd, e), PDPARAMS)), abspath(join(save_dir(cd, e), PDOPT))}

\* the training log lines printed by rank r
TrainLines(r) == SelectSeq(stdout[r], LAMBDA l : l.msg = "train")

\* the batches 0-based lo..hi of epoch e, in order
BatchRange(e, lo, hi) == [i \in 1..(hi - lo + 1) |-> TrainBatch(e, lo + i - 1)]

\* the training steps rank r has performed in epoch e
StepsDone(r, e) ==
    IF e <= start_epoch[r] \/ epoch[r] = 0 \/ e > epoch[r] THEN 0
    ELSE IF e < epoch[r] THEN steps_per_epoch
    ELSE next_batch[r]

\* ------------------------------------------------------------- claims
\* C1: when --load-checkpoint is given and loading a checkpoint file fails,
\* main does not abort: the exception is handled and the training loop is
\* reached.
C1_LoadFailureDoesNotAbort ==
    \A r \in Ranks : load_failed[r] => pc[r] # "aborted"

\* C2: when checkpoint loading fails, the first training step starts from
\* scratch: fresh model parameters, fresh optimizer state and start_epoch 0,
\* whichever load failed and whatever the path.
C2_FailedLoadTrainsFromScratch ==
    \A r \in Ranks :
        (load_failed[r] /\ pc[r] = "train" /\ timer[r] = 0) =>
            /\ model[r] = Fresh
            /\ optimizer[r] = Fresh
            /\ start_epoch[r] = 0

\* C3: the eight flags of the parser are sufficient: a run whose namespace
\* comes from the parser never reads an undefined option.
C3_ParserDefinesEveryOptionRead ==
    \A r \in Ranks :
        DOMAIN args[r] = ParserOptions => error[r] # "AttributeError"

\* C4: for every epoch e the training loop completes, the checkpoint of
\* epoch e holds both model.pdparams and model.pdopt.
C4_CheckpointPerEpoch ==
    \A e \in 1..(MaxEpochs + TwoDigitEpochs) :
        EpochCompleted(0, e) => Cardinality(FilesSaved(e)) = 2

\* C5: resuming from the directory epoch_<N> this script saved, N in
\* 1..epochs, sets start_epoch to N, and no epoch up to N is trained again.
C5_ResumeStartsAfterSavedEpoch ==
    \A r \in Ranks : \A n \in 1..args[r].epochs :
        (/\ pc[r] \notin {"stage7", "aborted"}
         /\ ~load_failed[r]
         /\ args[r].load_checkpoint = abspath(save_dir(CheckpointDir, n)))
        => /\ start_epoch[r] = n
           /\ epoch[r] # 0 => epoch[r] > n

\* C6: a rank other than 0 is in an epoch after a save epoch e only when
\* rank 0 has finished the validation pass of e and written both checkpoint
\* files of e.
C6_NonMainWaitsForSave ==
    \A r \in Ranks \ {0} : \A e \in 1..MaxEpochs :
        (/\ hasattr(args[r], "save_freq")
         /\ args[r].save_freq > 0
         /\ e % args[r].save_freq = 0
         /\ e > start_epoch[r]
         /\ epoch[r] > e)
        => /\ \A f \in CheckpointFiles(args[0].checkpoint_dir, e) :
                <<0, f, e>> \in saved
           /\ epoch[0] >= e
           /\ \E i \in 1..Len(stdout[0]) : stdout[0][i].msg = "dev_acc"

C6_Witness ==
    /\ nranks > 1
    /\ hasattr(args[1], "save_freq")
    /\ args[1].save_freq = 1
    /\ epoch[1] = start_epoch[1] + 2
    /\ next_batch[1] >= 1
    /\ Cardinality(FilesSaved(start_epoch[1] + 1)) = 2

\* C7: with the same sane arguments on every rank the barrier calls match
\* (one per save epoch when nranks > 1, none when nranks = 1), no rank waits
\* at a barrier that a stopped rank will never reach, and no rank stops
\* before it has finished the epoch loop.
C7_BarriersMatchAndLoopFinishes ==
    \A r \in Ranks :
        (InLoop(r) /\ SaneArgs(r)) =>
            /\ pc[r] # "aborted"
            /\ pc[r] = "barrier" =>
                 \A q \in Ranks : barrier_calls[q] >= barrier_calls[r] \/ ~Ended(q)
            /\ nranks = 1 => barrier_calls[r] = 0
            /\ (\A q \in Ranks : pc[q] = "done") =>
                 \A q \in Ranks : barrier_calls[q] = barrier_calls[r]

\* C8: only rank 0 validates or writes a checkpoint file, no file is written
\* by two processes, and no other rank is ever in eval mode.
C8_OnlyMainValidatesAndSaves ==
    /\ \A s \in saved : s[1] = 0
    /\ \A s, t \in saved : s[2] = t[2] => s[1] = t[1]
    /\ \A r \in Ranks \ {0} :
        /\ mode[r] = "train"
        /\ pc[r] \notin {"valid", "save_params", "save_opt"}
        /\ \A i \in 1..Len(stdout[r]) :
              stdout[r][i].msg \notin {"evaluate", "dev_acc", "saving"}

C8_Witness ==
    /\ nranks > 1
    /\ \E e \in 1..MaxEpochs :
        /\ Cardinality(FilesSaved(e)) = 2
        /\ epoch[1] > e
        /\ mode[0] = "eval"

\* C9: rank 0, and only rank 0, prints a training log line exactly at the
\* steps whose number is a multiple of log_freq, once each, and the line
\* averages exactly the log_freq steps that end at it, all of its own epoch.
C9_LogEveryLogFreqSteps ==
    /\ \A r \in Ranks \ {0} : Len(TrainLines(r)) = 0
    /\ LET lines == TrainLines(0)
           lf == args[0].log_freq
           due == IF lf = 0 THEN {}
                  ELSE {<<e, k>> \in ((start_epoch[0] + 1)..epoch[0])
                                        \X (1..steps_per_epoch) :
                            k % lf = 0 /\ k <= StepsDone(0, e)}
       IN  /\ {<<lines[i].epoch, lines[i].step>> : i \in 1..Len(lines)} = due
           /\ Len(lines) = Cardinality(due)
           /\ \A i \in 1..Len(lines) :
                LET l == lines[i]
                    window == BatchRange(l.epoch, l.step - lf, l.step - 1)
                IN  /\ l.loss = [sum |-> window, div |-> lf]
                    /\ l.acc = [num |-> window, den |-> window]

C9_Witness ==
    /\ args[0].log_freq > 1
    /\ steps_per_epoch > args[0].log_freq
    /\ steps_per_epoch % args[0].log_freq # 0
    /\ \E i \in 1..Len(TrainLines(0)) :
          TrainLines(0)[i].epoch = start_epoch[0] + 2

\* C10: a rank whose main has ended after entering the epoch loop, with sane
\* arguments, has run every epoch of start_epoch+1..epochs with
\* steps_per_epoch optimizer steps each, and none when start_epoch >= epochs.
C10_LoopRunsEveryEpoch ==
    \A r \in Ranks :
        (Ended(r) /\ InLoop(r) /\ SaneArgs(r)) =>
            /\ timer[r] = EpochsToRun(r) * steps_per_epoch
            /\ EpochsToRun(r) = 0 => (saved = {} /\ mode[r] = "train")

====
